---- MODULE Spec2Model ----
(***************************************************************************)
(* Signal Sorter: the response-extraction and reconciliation engine of     *)
(* the AI service (parseResponse and its helpers) together with the item   *)
(* store it reconciles against.                                            *)
(*                                                                         *)
(* Text is modelled as a sequence of one-character strings, so that        *)
(* lower-casing, prefix stripping, punctuation removal, trimming, the      *)
(* edit distance and the marker-line regular expressions are computed      *)
(* character by character as the JavaScript computes them.                 *)
(***************************************************************************)
EXTENDS Integers, Sequences, FiniteSets, TLC

(***************************************************************************)
(* Characters                                                              *)
(***************************************************************************)

\* A string literal as a sequence of one-character strings.
Chars(s) == [i \in 1..Len(s) |-> SubSeq(s, i, i)]

Uppers == Chars("ABCDEFGHIJKLMNOPQRSTUVWXYZ")
Lowers == Chars("abcdefghijklmnopqrstuvwxyz")
Digits == Chars("0123456789")

UpperSet == {Uppers[i] : i \in 1..Len(Uppers)}
LowerSet == {Lowers[i] : i \in 1..Len(Lowers)}
DigitSet == {Digits[i] : i \in 1..Len(Digits)}

\* \s of a JavaScript regular expression (the members that occur here).
IsSpace(c) == c \in {" ", "\n", "\t"}

\* \w of a JavaScript regular expression.
IsWord(c) == c \in UpperSet \cup LowerSet \cup DigitSet \cup {"_"}

ToLowerChar(c) ==
  IF c \in UpperSet
    THEN Lowers[CHOOSE i \in 1..Len(Uppers) : Uppers[i] = c]
    ELSE c

\* String.prototype.toLowerCase
toLowerCase(s) == [i \in 1..Len(s) |-> ToLowerChar(s[i])]

\* The suffix of s that starts at index i (1-based); empty when i > Len(s).
From(s, i) == SubSeq(s, i, Len(s))

\* Does s hold the word w (given in lower case) at index i, ignoring case?
HasAtCI(s, i, w) ==
  /\ i >= 1
  /\ i + Len(w) - 1 <= Len(s)
  /\ \A k \in 1..Len(w) : ToLowerChar(s[i + k - 1]) = w[k]

\* The character classes the patterns repeat.
IsLabelSep(c) == c = ":" \/ IsSpace(c)
IsStar(c) == c = "*"
NotPipe(c) == c # "|"
NotNewline(c) == c # "\n"

InClass(class, c) ==
  CASE class = "\\s" -> IsSpace(c)
    [] class = "[:\\s]" -> IsLabelSep(c)
    [] class = "\\*" -> IsStar(c)
    [] class = "[^|]" -> NotPipe(c)
    [] class = "[^\\n]" -> NotNewline(c)

\* class*: the least index >= i whose character is outside the class, or
\* Len(s) + 1.
SkipWhile(s, i, class) ==
  LET stops == {k \in i..Len(s) : ~InClass(class, s[k])}
  IN IF stops = {} THEN Len(s) + 1
     ELSE CHOOSE k \in stops : \A m \in stops : k <= m

\* String.prototype.trim
trim(s) ==
  LET keep == {k \in 1..Len(s) : ~IsSpace(s[k])}
  IN IF keep = {} THEN <<>>
     ELSE SubSeq(s, CHOOSE k \in keep : \A m \in keep : k <= m,
                    CHOOSE k \in keep : \A m \in keep : k >= m)

\* .replace(/\s+/g, ' '): every maximal run of whitespace becomes one space.
CollapseSpace(s) ==
  LET kept == SelectSeq([i \in 1..Len(s) |-> <<i, s[i]>>],
                        LAMBDA p : \/ ~IsSpace(p[2])
                                   \/ p[1] = 1
                                   \/ ~IsSpace(s[p[1] - 1]))
  IN [i \in 1..Len(kept) |-> IF IsSpace(kept[i][2]) THEN " " ELSE kept[i][2]]

LabelWords == <<Chars("signal"), Chars("necessary"), Chars("noise")>>


\* .replace(/^(signal|necessary|noise)[:\s]*/i, ''): one leading label word,
\* in any case, and the run of colons and whitespace after it.
StripLabelPrefix(s) ==
  LET hits == {w \in 1..Len(LabelWords) : HasAtCI(s, 1, LabelWords[w])}
  IN IF hits = {} THEN s
     ELSE LET w == CHOOSE h \in hits : \A m \in hits : h <= m
          IN From(s, SkipWhile(s, Len(LabelWords[w]) + 1, "[:\\s]"))

\* .replace(/[^\w\s]/g, '')
RemovePunctuation(s) == SelectSeq(s, LAMBDA c : IsWord(c) \/ IsSpace(c))

\* normalize (comparison key)
normalize(text) ==
  trim(CollapseSpace(RemovePunctuation(StripLabelPrefix(toLowerCase(text)))))


\* .replace(/^\*+|\*+$/g, ''): the leading and the trailing run of asterisks.
StripOuterStars(s) ==
  LET lo == SkipWhile(s, 1, "\\*")
      rest == From(s, lo)
      keep == {k \in 1..Len(rest) : ~IsStar(rest[k])}
  IN IF keep = {} THEN <<>>
     ELSE SubSeq(rest, 1, CHOOSE k \in keep : \A m \in keep : k >= m)

\* .replace(/\*\*/g, ''): every pair of asterisks, left to right.
RECURSIVE RemoveDoubleStars(_)
RemoveDoubleStars(s) ==
  IF Len(s) = 0 THEN <<>>
  ELSE IF Len(s) >= 2 /\ s[1] = "*" /\ s[2] = "*"
    THEN RemoveDoubleStars(From(s, 3))
    ELSE <<s[1]>> \o RemoveDoubleStars(Tail(s))

\* cleanName (display name)
cleanName(name) ==
  trim(CollapseSpace(StripLabelPrefix(RemoveDoubleStars(StripOuterStars(trim(name))))))

\* Does s contain p as a substring?
Includes(s, p) ==
  \E i \in 1..(Len(s) - Len(p) + 1) : SubSeq(s, i, i + Len(p) - 1) = p

InvalidPhrases ==
  { Chars("your top"), Chars("looking at"), Chars("here's"), Chars("let me"),
    Chars("based on"), Chars("priority right now"), Chars("focus on"),
    Chars("i recommend"), Chars("you should"), Chars("the key"),
    Chars("most important"), Chars("start with") }

\* isInvalidPhrase without the lowering of the name.
isInvalidPhrase_CaseSensitive(name) ==
  \E phrase \in InvalidPhrases : Includes(name, phrase)

\* isInvalidPhrase
isInvalidPhrase(name) ==
  LET lower == toLowerCase(name)
  IN \E phrase \in InvalidPhrases : Includes(lower, phrase)

(***************************************************************************)
(* Similarity                                                              *)
(***************************************************************************)

Min2(x, y) == IF x <= y THEN x ELSE y

\* matrix[i][j] without the substitution: an insertion or a deletion only.
LevCell_NoSubstitution(bi, aj, diag, left, up) ==
  IF bi = aj THEN diag ELSE Min2(left + 1, up + 1)

\* matrix[i][j] from its three neighbours, for the characters bi and aj.
LevCell(bi, aj, diag, left, up) ==
  IF bi = aj THEN diag ELSE Min2(diag + 1, Min2(left + 1, up + 1))

\* One row of the matrix: row i from row i - 1 (prev), for the character bi of
\* b.  A row is a sequence whose element j + 1 is matrix[i][j]; cur holds the
\* row as far as it is filled, v the cell j being added.  (The tests v < 0
\* here and Len(prev) = 0 below never hold: they make the evaluator compute
\* the cell and the row before it goes on.)
RECURSIVE LevRow(_, _, _, _, _, _)
LevRow(a, bi, prev, cur, j, v) ==
  IF v < 0 THEN cur
  ELSE IF j >= Len(a) THEN Append(cur, v)
  ELSE LevRow(a, bi, prev, Append(cur, v), j + 1,
              LevCell(bi, a[j + 1], prev[j + 1], v, prev[j + 2]))

\* The rows i..Len(b), each computed from the finished row before it.
RECURSIVE LevRows(_, _, _, _)
LevRows(a, b, prev, i) ==
  IF Len(prev) = 0 \/ i > Len(b) THEN prev
  ELSE LevRows(a, b, LevRow(a, b[i], prev, <<>>, 0, i), i + 1)

\* levenshtein
levenshtein(a, b) ==
  IF Len(a) = 0 THEN Len(b)
  ELSE IF Len(b) = 0 THEN Len(a)
  ELSE LevRows(a, b, [j \in 1..(Len(a) + 1) |-> j - 1], 1)[Len(a) + 1]

\* A ratio num/den, den > 0; the scores of similarity are such ratios.
Ratio(n, d) == [num |-> n, den |-> d]
RatioGT(x, y) == x.num * y.den > y.num * x.den

\* 1 - levenshtein(normalized1, normalized2) / maxLen, as an exact ratio.
SimilarityRatio(normalized1, normalized2, maxLen) ==
  IF maxLen = 0 THEN Ratio(1, 1)
  ELSE Ratio(maxLen - levenshtein(normalized1, normalized2), maxLen)

\* similarity with the length of the first string for maxLen.
SimilarityOf_FirstLength(normalized1, normalized2) ==
  SimilarityRatio(normalized1, normalized2, Len(normalized1))

SimilarityOf(normalized1, normalized2) ==
  SimilarityRatio(normalized1, normalized2,
                  IF Len(normalized1) >= Len(normalized2)
                    THEN Len(normalized1) ELSE Len(normalized2))

\* similarity
similarity(a, b) == SimilarityOf(normalize(a), normalize(b))

\* The default threshold of findMatchingItem, 0.75 = 3/4.
ThresholdNum == 3
ThresholdDen == 4
Threshold == Ratio(ThresholdNum, ThresholdDen)

(***************************************************************************)
(* Items and matching                                                      *)
(***************************************************************************)

\* The values the items table admits for classification.
Classifications == {"SIGNAL", "NECESSARY", "NOISE"}

\* An item row; what, why and next_action are text, empty when null.
Item(id, name, classification, completed) ==
  [id |-> id, name |-> name, classification |-> classification,
   what |-> <<>>, why |-> <<>>, next_action |-> <<>>, completed |-> completed]

\* null, as the result of findMatchingItem.
NullItem == Item(0, <<>>, "", FALSE)

\* The loop of findMatchingItem over existingItems[i..], with the best match
\* and the best score so far.
RECURSIVE FindLoop(_, _, _, _, _)
FindLoop(normalizedName, existingItems, i, bestMatch, bestScore) ==
  IF i > Len(existingItems) THEN bestMatch
  ELSE LET item == existingItems[i]
           score == similarity(normalizedName, normalize(item.name))
       IN IF RatioGT(score, Threshold) /\ RatioGT(score, bestScore)
            THEN FindLoop(normalizedName, existingItems, i + 1, item, score)
            ELSE FindLoop(normalizedName, existingItems, i + 1, bestMatch, bestScore)

\* findMatchingItem with the best score starting at 1 instead of 0.
findMatchingItem_BestScoreOne(name, existingItems) ==
  FindLoop(normalize(name), existingItems, 1, NullItem, Ratio(1, 1))

\* findMatchingItem, with the default threshold
findMatchingItem(name, existingItems) ==
  FindLoop(normalize(name), existingItems, 1, NullItem, Ratio(0, 1))

(***************************************************************************)
(* Responses                                                               *)
(*                                                                         *)
(* A response is its fenced JSON block, as JSON.parse sees it, and the     *)
(* text the marker-line patterns scan.  json.kind is "none" (no fenced     *)
(* block), "invalid" (JSON.parse throws), "null", "object" (a value that   *)
(* is no array and has no items array), or "items" / "array" (an items     *)
(* array inside an object / at the top level), with elems its elements.    *)
(* An element is null (kind "null"), a primitive ("prim") or an object     *)
(* ("obj") whose name is absent or empty (nameType "none"), a string       *)
(* ("str") or another truthy value ("other").                              *)
(***************************************************************************)

Elem(name, classification, what, why, next) ==
  [kind |-> "obj", nameType |-> IF name = <<>> THEN "none" ELSE "str",
   name |-> name, classification |-> classification,
   what |-> what, why |-> why, next |-> next]

NullElem == [Elem(<<>>, "", <<>>, <<>>, <<>>) EXCEPT !.kind = "null"]
NonStringNameElem(classification) ==
  [Elem(<<>>, classification, <<>>, <<>>, <<>>) EXCEPT !.nameType = "other"]

Json(kind, elems) == [kind |-> kind, elems |-> elems]
NoJson == Json("none", <<>>)

\* The accumulators of parseResponse; threw: an exception is propagating.
Acc0 == [newItems |-> <<>>, updates |-> <<>>, seenNames |-> {}, threw |-> FALSE]

Throw(acc) == [acc EXCEPT !.threw = TRUE]

\* Reconcile with the update carrying the classification of the stored item.
Reconcile_KeepsStoredClass(acc, cleanedName, classification, what, why, next, existingItems) ==
  LET existingMatch == findMatchingItem(cleanedName, existingItems)
  IN IF existingMatch # NullItem
       THEN IF existingMatch.classification # classification
              THEN [acc EXCEPT !.updates = Append(@,
                     [id |-> existingMatch.id,
                      classification |-> existingMatch.classification,
                      what |-> IF what # <<>> THEN what ELSE existingMatch.what,
                      why |-> IF why # <<>> THEN why ELSE existingMatch.why,
                      next_action |-> IF next # <<>> THEN next
                                      ELSE existingMatch.next_action])]
              ELSE acc
       ELSE [acc EXCEPT !.newItems = Append(@,
              [name |-> cleanedName, classification |-> classification,
               what |-> what, why |-> why, next_action |-> next])]

\* Reconcile with the update carrying the fields of the candidate only.
Reconcile_CandidateFieldsOnly(acc, cleanedName, classification, what, why, next, existingItems) ==
  LET existingMatch == findMatchingItem(cleanedName, existingItems)
  IN IF existingMatch # NullItem
       THEN IF existingMatch.classification # classification
              THEN [acc EXCEPT !.updates = Append(@,
                     [id |-> existingMatch.id,
                      classification |-> classification,
                      what |-> what, why |-> why, next_action |-> next])]
              ELSE acc
       ELSE [acc EXCEPT !.newItems = Append(@,
              [name |-> cleanedName, classification |-> classification,
               what |-> what, why |-> why, next_action |-> next])]

\* Reconcile without the comparison of the classifications: every match is
\* an update.
Reconcile_AlwaysUpdates(acc, cleanedName, classification, what, why, next, existingItems) ==
  LET existingMatch == findMatchingItem(cleanedName, existingItems)
  IN IF existingMatch # NullItem
       THEN [acc EXCEPT !.updates = Append(@,
              [id |-> existingMatch.id,
               classification |-> classification,
               what |-> IF what # <<>> THEN what ELSE existingMatch.what,
               why |-> IF why # <<>> THEN why ELSE existingMatch.why,
               next_action |-> IF next # <<>> THEN next
                               ELSE existingMatch.next_action])]
       ELSE [acc EXCEPT !.newItems = Append(@,
              [name |-> cleanedName, classification |-> classification,
               what |-> what, why |-> why, next_action |-> next])]

\* The reconciliation of one accepted candidate against the existing items.
Reconcile(acc, cleanedName, classification, what, why, next, existingItems) ==
  LET existingMatch == findMatchingItem(cleanedName, existingItems)
  IN IF existingMatch # NullItem
       THEN IF existingMatch.classification # classification
              THEN [acc EXCEPT !.updates = Append(@,
                     [id |-> existingMatch.id,
                      classification |-> classification,
                      what |-> IF what # <<>> THEN what ELSE existingMatch.what,
                      why |-> IF why # <<>> THEN why ELSE existingMatch.why,
                      next_action |-> IF next # <<>> THEN next
                                      ELSE existingMatch.next_action])]
              ELSE acc
       ELSE [acc EXCEPT !.newItems = Append(@,
              [name |-> cleanedName, classification |-> classification,
               what |-> what, why |-> why, next_action |-> next])]

\* JsonStep without the check of seenNames.
JsonStep_NoSeenCheck(acc, item, existingItems) ==
  IF item.kind = "null" THEN Throw(acc)
  ELSE IF item.kind # "obj" THEN acc
  ELSE IF item.nameType = "none" \/ item.classification = "" THEN acc
  ELSE IF item.nameType # "str" THEN Throw(acc)
  ELSE IF Len(cleanName(item.name)) < 3 THEN acc
  ELSE Reconcile([acc EXCEPT !.seenNames = @ \cup {normalize(cleanName(item.name))}],
                 cleanName(item.name), item.classification,
                 item.what, item.why, item.next, existingItems)

\* The body of the loop over the elements of the JSON array.
JsonStep(acc, item, existingItems) ==
  IF item.kind = "null" THEN Throw(acc)
  ELSE IF item.kind # "obj" THEN acc
  ELSE IF item.nameType = "none" \/ item.classification = "" THEN acc
  ELSE IF item.nameType # "str" THEN Throw(acc)
  ELSE LET cleanedName == cleanName(item.name)
           normalizedName == normalize(cleanedName)
       IN IF Len(cleanedName) < 3 THEN acc
          ELSE IF normalizedName \in acc.seenNames THEN acc
          ELSE Reconcile([acc EXCEPT !.seenNames = @ \cup {normalizedName}],
                         cleanedName, item.classification,
                         item.what, item.why, item.next, existingItems)

\* The loop over the elements i..n of the JSON array; an exception ends it.
RECURSIVE JsonLoop(_, _, _, _, _)
JsonLoop(acc, elems, i, n, existingItems) ==
  IF acc.threw \/ i > n THEN acc
  ELSE JsonLoop(JsonStep(acc, elems[i], existingItems), elems, i + 1, n,
                existingItems)

\* The try block of the structured tier.
JsonTry(json, existingItems) ==
  CASE json.kind \in {"invalid", "null"} -> Throw(Acc0)
    [] json.kind \in {"items", "array"} ->
         JsonLoop(Acc0, json.elems, 1, Len(json.elems), existingItems)
    [] OTHER -> Acc0

\* catch (e): the exception is logged and dropped, the accumulators stay.
Catch(acc) == [acc EXCEPT !.threw = FALSE]

\* The structured tier: if (jsonMatch) { try { ... } catch (e) { ... } }
JsonTier(json, existingItems) ==
  IF json.kind = "none" THEN Acc0 ELSE Catch(JsonTry(json, existingItems))

(***************************************************************************)
(* The marker-line patterns of the fallback tier                           *)
(*                                                                         *)
(*   <glyph>\s*TAG[:\s]+([^|]+)(?:\|\s*WHAT:\s*([^|]+))?                   *)
(*          (?:\|\s*WHY:\s*([^|]+))?(?:\|\s*NEXT:\s*([^\n]+))?   flags gi  *)
(*                                                                         *)
(* A glyph is two UTF-16 code units; the text writes the high one as "^"   *)
(* and the low one as "#" (green), "%" (yellow) or "&" (red).              *)
(***************************************************************************)

Patterns ==
  << [glyph |-> Chars("^#"), tag |-> Chars("signal"), classification |-> "SIGNAL"],
     [glyph |-> Chars("^%"), tag |-> Chars("necessary"), classification |-> "NECESSARY"],
     [glyph |-> Chars("^&"), tag |-> Chars("noise"), classification |-> "NOISE"] >>


\* An optional group that did not take part in the match.
NoGroup == [found |-> FALSE, value |-> <<>>, end |-> 0]

\* (<class>+) from index st on: the longest run of the class.
GroupValue(text, st, en) ==
  [found |-> TRUE, value |-> SubSeq(text, st, en - 1), end |-> en]

\* \s*(<class>+) after the key, \s* running over r2..r3-1: the group starts at
\* the last index that the greedy \s* can give up to it.
GroupFrom(text, r2, r3, class) ==
  LET starts == {k \in r2..r3 : k <= Len(text) /\ InClass(class, text[k])}
  IN IF starts = {} THEN NoGroup
     ELSE GroupValue(text, CHOOSE k \in starts : \A m \in starts : k >= m,
                     SkipWhile(text, CHOOSE k \in starts : \A m \in starts : k >= m,
                               class))

\* KEY:\s*(<class>+) at index r1
GroupKey(text, r1, key, class) ==
  IF ~HasAtCI(text, r1, key) THEN NoGroup
  ELSE GroupFrom(text, r1 + Len(key),
                 SkipWhile(text, r1 + Len(key), "\\s"), class)

\* (?:\|\s*KEY:\s*(<class>+))? at index q
Group(text, q, key, class) ==
  IF q > Len(text) \/ text[q] # "|" THEN NoGroup
  ELSE GroupKey(text, SkipWhile(text, q + 1, "\\s"), key, class)

\* regex.exec returned null.
NoRegexMatch ==
  [found |-> FALSE, index |-> 0, end |-> 0, name |-> <<>>,
   what |-> <<>>, why |-> <<>>, next |-> <<>>, classification |-> ""]

\* match[2]?.trim(), match[3]?.trim(), match[4]?.trim(): a group that took
\* part gives its trimmed text and moves the end of the match.
TakeWhat(match, g) ==
  IF g.found THEN [match EXCEPT !.what = trim(g.value), !.end = g.end] ELSE match
TakeWhy(match, g) ==
  IF g.found THEN [match EXCEPT !.why = trim(g.value), !.end = g.end] ELSE match
TakeNext(match, g) ==
  IF g.found THEN [match EXCEPT !.next = trim(g.value), !.end = g.end] ELSE match

MatchNext(text, match) ==
  TakeNext(match, Group(text, match.end, Chars("next:"), "[^\\n]"))
MatchWhy(text, match) ==
  MatchNext(text, TakeWhy(match, Group(text, match.end, Chars("why:"), "[^|]")))
MatchWhat(text, match) ==
  MatchWhy(text, TakeWhat(match, Group(text, match.end, Chars("what:"), "[^|]")))

\* ([^|]+) over ns..ne-1, then the three optional groups.
MatchName(text, i, ns, ne, pat) ==
  MatchWhat(text, [NoRegexMatch EXCEPT !.found = TRUE, !.index = i, !.end = ne,
                                       !.name = SubSeq(text, ns, ne - 1),
                                       !.classification = pat.classification])

\* [:\s]+ over p2..p3-1: it keeps at least one character, and gives up its
\* last one when ([^|]+) would otherwise be empty.
MatchSep(text, i, p2, p3, pat) ==
  IF p3 = p2 THEN NoRegexMatch
  ELSE IF p3 <= Len(text) /\ text[p3] # "|"
    THEN MatchName(text, i, p3, SkipWhile(text, p3, "[^|]"), pat)
  ELSE IF p3 - 1 > p2
    THEN MatchName(text, i, p3 - 1, SkipWhile(text, p3 - 1, "[^|]"), pat)
  ELSE NoRegexMatch

\* TAG at index p1, in any case
MatchTag(text, i, p1, pat) ==
  IF ~HasAtCI(text, p1, pat.tag) THEN NoRegexMatch
  ELSE MatchSep(text, i, p1 + Len(pat.tag),
                SkipWhile(text, p1 + Len(pat.tag), "[:\\s]"), pat)

\* The match of pattern pat that starts at index i, if there is one.
MatchAt(text, i, pat) ==
  IF ~(i + 1 <= Len(text) /\ SubSeq(text, i, i + 1) = pat.glyph) THEN NoRegexMatch
  ELSE MatchTag(text, i, SkipWhile(text, i + 2, "\\s"), pat)

\* while ((match = regex.exec(response)) !== null): the matches of pat from
\* lastIndex = from on, each search starting where the match before it ended.
RECURSIVE ExecAll(_, _, _)
ExecTake(text, pat, match) == <<match>> \o ExecAll(text, pat, match.end)
ExecFirst(text, pat, starts) ==
  IF starts = {} THEN <<>>
  ELSE ExecTake(text, pat,
                MatchAt(text, CHOOSE k \in starts : \A m \in starts : k <= m, pat))
ExecAll(text, pat, from) ==
  ExecFirst(text, pat, {i \in from..Len(text) : MatchAt(text, i, pat).found})

\* for (const { regex, classification } of patterns): the matches in the order
\* the two nested loops visit them.
AllMatches(text) ==
  ExecAll(text, Patterns[1], 1) \o ExecAll(text, Patterns[2], 1)
    \o ExecAll(text, Patterns[3], 1)

\* RegexStep without the check of seenNames.
RegexStep_NoSeenCheck(acc, match, existingItems) ==
  IF Len(cleanName(match.name)) < 3 THEN acc
  ELSE IF isInvalidPhrase(cleanName(match.name)) THEN acc
  ELSE Reconcile([acc EXCEPT !.seenNames = @ \cup {normalize(cleanName(match.name))}],
                 cleanName(match.name), match.classification,
                 match.what, match.why, match.next, existingItems)

\* The body of the while loop of the fallback tier.
RegexStep(acc, match, existingItems) ==
  LET cleanedName == cleanName(match.name)
      normalizedName == normalize(cleanedName)
  IN IF Len(cleanedName) < 3 THEN acc
     ELSE IF normalizedName \in acc.seenNames THEN acc
     ELSE IF isInvalidPhrase(cleanedName) THEN acc
     ELSE Reconcile([acc EXCEPT !.seenNames = @ \cup {normalizedName}],
                    cleanedName, match.classification,
                    match.what, match.why, match.next, existingItems)

\* The matches i..n, in order.
RECURSIVE RegexLoop(_, _, _, _, _)
RegexLoop(acc, matches, i, n, existingItems) ==
  IF i > n THEN acc
  ELSE RegexLoop(RegexStep(acc, matches[i], existingItems), matches, i + 1, n,
                 existingItems)

\* if (newItems.length === 0 && updates.length === 0)
FallbackRuns(acc) == ~acc.threw /\ acc.newItems = <<>> /\ acc.updates = <<>>

\* The fallback tier.
FallbackTier(acc, text, existingItems) ==
  IF FallbackRuns(acc)
    THEN LET matches == AllMatches(text)
         IN RegexLoop(acc, matches, 1, Len(matches), existingItems)
    ELSE acc

\* parseResponse; threw: an exception left the function.
parseResponse(response, existingItems) ==
  LET acc == FallbackTier(JsonTier(response.json, existingItems),
                          response.text, existingItems)
  IN [newItems |-> acc.newItems, updates |-> acc.updates, threw |-> acc.threw]

(***************************************************************************)
(* The item store                                                          *)
(***************************************************************************)

MaxOf(S) == CHOOSE k \in S : \A m \in S : k >= m

\* The ids the store gives to n new rows.
FreshIds(items, n) ==
  LET top == MaxOf({0} \cup {items[k].id : k \in 1..Len(items)})
  IN [k \in 1..n |-> top + k]

\* CHECK (classification IN ('SIGNAL', 'NECESSARY', 'NOISE'))
InsertAccepted(newItems) ==
  \A k \in 1..Len(newItems) : newItems[k].classification \in Classifications

\* addItems: the rows are inserted in one statement and put in front of the
\* list; when the insert fails the list is left as it was.
addItems(items, newItems) ==
  IF newItems = <<>> \/ ~InsertAccepted(newItems) THEN items
  ELSE LET ids == FreshIds(items, Len(newItems))
           data == [k \in 1..Len(newItems) |->
                     [id |-> ids[k], name |-> newItems[k].name,
                      classification |-> newItems[k].classification,
                      what |-> newItems[k].what, why |-> newItems[k].why,
                      next_action |-> newItems[k].next_action,
                      completed |-> FALSE]]
       IN data \o items

\* .update({ ...changes }).eq('id', id): one update of updateItems; the store
\* refuses a classification outside the three values and changes nothing.
ApplyUpdate(items, update) ==
  IF update.classification \notin Classifications THEN items
  ELSE [k \in 1..Len(items) |->
         IF items[k].id = update.id
           THEN [items[k] EXCEPT !.classification = update.classification,
                                 !.what = update.what, !.why = update.why,
                                 !.next_action = update.next_action]
           ELSE items[k]]

\* updateItems: the updates i.., each sent to the store in the order of the list.
RECURSIVE updateItems(_, _, _)
updateItems(items, updates, i) ==
  IF i > Len(updates) THEN items
  ELSE updateItems(ApplyUpdate(items, updates[i]), updates, i + 1)

\* Did the store take every record of the result?
AllPersisted(res) ==
  /\ InsertAccepted(res.newItems)
  /\ \A k \in 1..Len(res.updates) : res.updates[k].classification \in Classifications

(***************************************************************************)
(* Inputs                                                                  *)
(***************************************************************************)

ReviewBudget == Chars("Review budget")
CallDentist == Chars("Call dentist")
MarkerShip ==
  Chars("^# SIGNAL: Ship release | WHAT: Deploy v2 | WHY: Blocks launch | NEXT: Merge PR")
MarkerRent == Chars("^% NECESSARY: Pay rent | NEXT: Today")
Plain(name, classification) == Elem(name, classification, <<>>, <<>>, <<>>)
Resp(json, text) == [json |-> json, text |-> text]

\* A row whose what, why and next_action are filled.
Described(item, what, why, next) ==
  [item EXCEPT !.what = what, !.why = why, !.next_action = next]

\* The stores a run starts from: newest row first, ids unique, no two rows
\* that are not completed with the same normalized name.
InitStores ==
  { <<>>,
    <<Item(1, ReviewBudget, "NECESSARY", FALSE)>>,
    <<Item(2, Chars("Review Budget"), "SIGNAL", TRUE),
      Item(1, ReviewBudget, "NECESSARY", FALSE)>>,
    <<Described(Item(2, CallDentist, "SIGNAL", TRUE),
                Chars("Yearly checkup"), <<>>, Chars("Find the number")),
      Described(Item(1, Chars("NOISE: Ship release"), "NOISE", FALSE),
                Chars("Tag v2"), Chars("Nobody waits"), Chars("Park it"))>> }

\* The completion texts a run draws from.
Responses ==
  << \* 1: one well-formed item, and the closing call-out the prompt asks for
     Resp(Json("items", <<Elem(CallDentist, "NOISE", Chars("Schedule checkup"),
                              Chars("Not urgent"), Chars("Defer"))>>),
          Chars("**Your top signal: Call dentist**")),
     \* 2: a near match of "Review budget" under another classification
     Resp(Json("items", <<Plain(Chars("Review the budget"), "SIGNAL")>>), <<>>),
     \* 3: an item the store tracks already, followed by a marker line
     Resp(Json("items", <<Plain(Chars("SIGNAL: Review Budget!"), "NECESSARY")>>),
          MarkerShip),
     \* 4: a block that does not parse, and a marker line
     Resp(Json("invalid", <<>>), MarkerShip),
     \* 5: an array whose second element is null, and a marker line
     Resp(Json("array", <<Plain(CallDentist, "NOISE"), NullElem>>), MarkerRent),
     \* 6: the JSON value null, and a marker line
     Resp(Json("null", <<>>), MarkerRent),
     \* 7: an element whose name is a number, and an object that is no array
     Resp(Json("array", <<NonStringNameElem("SIGNAL")>>), MarkerRent),
     \* 8: a classification outside the three values
     Resp(Json("items", <<Plain(Chars("Book flights"), "URGENT")>>), <<>>),
     \* 9: two near matches of the same row under different classifications
     Resp(Json("items", <<Plain(Chars("Review the budget"), "SIGNAL"),
                          Plain(Chars("Review budgets"), "NOISE")>>), <<>>),
     \* 10: the same name under two tags, the NOISE line first
     Resp(NoJson,
          Chars("^& NOISE: Ship release | NEXT: Later\n^# SIGNAL: Ship release | NEXT: Now")),
     \* 11: a commentary sentence behind a marker, then a task line
     Resp(NoJson,
          Chars("^# SIGNAL: Your top signal right now: Ship release |\n^% NECESSARY: Pay rent")),
     \* 12: the same name twice in one array, and elements that are skipped
     Resp(Json("array", <<Plain(Chars("**Call dentist**"), "NOISE"),
                          Plain(Chars("call dentist!"), "SIGNAL"),
                          Plain(Chars("ab"), "SIGNAL"),
                          Plain(<<>>, "SIGNAL"),
                          Plain(Chars("Water plants"), "")>>), <<>>),
     \* 13: an object without an items array, and marker lines without fields
     Resp(Json("object", <<>>),
          Chars("^# SIGNAL: Ship release\n^# SIGNAL: Pay rent\nLet me know!")) >>

(***************************************************************************)
(* The analysis loop: a completion is parsed against the current rows and  *)
(* its result is written to the store.                                     *)
(***************************************************************************)

\* The number of analyses of one run.
MaxPasses == 2

\* A name holds one of the commentary phrases, in any case.
HasGuardPhrase(name) ==
  \E phrase \in InvalidPhrases :
    \E i \in 1..Len(name) : HasAtCI(name, i, phrase)

(***************************************************************************)
(* The candidates of a completion                                          *)
(*                                                                         *)
(* The elements of the JSON array in array order, then the marker-line     *)
(* matches in the order the fallback tier visits them, each with the       *)
(* accumulators before and after the loop body ran on it and with the      *)
(* existing item the lookup finds for its name.                            *)
(***************************************************************************)

JsonElems(json) ==
  IF json.kind \in {"items", "array"} THEN json.elems ELSE <<>>

JsonCandOf(n, e, name, before, E) ==
  [tier |-> "json", pos |-> n, index |-> 0, end |-> 0,
   name |-> name,
   classification |-> e.classification,
   what |-> e.what, why |-> e.why, next |-> e.next,
   valid |-> /\ ~before.threw
             /\ e.kind = "obj" /\ e.nameType = "str" /\ e.classification # ""
             /\ Len(name) >= 3,
   match |-> findMatchingItem(name, E),
   before |-> before,
   after |-> IF before.threw THEN before ELSE JsonStep(before, e, E)]

RegexCandOf(n, m, name, before, E) ==
  [tier |-> "regex", pos |-> n, index |-> m.index, end |-> m.end,
   name |-> name,
   classification |-> m.classification,
   what |-> m.what, why |-> m.why, next |-> m.next,
   valid |-> Len(name) >= 3 /\ ~HasGuardPhrase(name),
   match |-> findMatchingItem(name, E),
   before |-> before,
   after |-> RegexStep(before, m, E)]

CandidatesOf(elems, afterJson, matches, E) ==
  {JsonCandOf(n, elems[n],
              IF elems[n].nameType = "str" THEN cleanName(elems[n].name) ELSE <<>>,
              JsonLoop(Acc0, elems, 1, n - 1, E), E) :
     n \in 1..Len(elems)}
  \cup
  {RegexCandOf(n, matches[n], cleanName(matches[n].name),
               RegexLoop(afterJson, matches, 1, n - 1, E), E) :
     n \in 1..Len(matches)}

FallbackMatches(afterJson, text) ==
  IF FallbackRuns(afterJson) THEN AllMatches(text) ELSE <<>>

TraceOf(resp, afterJson, E) ==
  [afterJson |-> afterJson,
   candidates |-> CandidatesOf(JsonElems(resp.json), afterJson,
                               FallbackMatches(afterJson, resp.text), E)]

\* The steps parseResponse takes on a completion.
ParseTrace(resp, E) == TraceOf(resp, JsonTier(resp.json, E), E)

NoTrace == [afterJson |-> Acc0, candidates |-> {}]

VARIABLES
  items,          \* the user's rows, newest first
  pc,             \* "idle", or "parsed": a result waits to be persisted
  response,       \* the index in Responses of the completion last parsed, or 0
  existingItems,  \* the rows that completion was parsed against
  result,         \* what parseResponse returned for it
  trace,          \* the steps parseResponse took to it
  lastPersisted,  \* the completion whose result the store took last, whole; or 0
  passes,         \* the analyses so far
  fn,             \* a helper applied on its own: its inputs and what it returned
  api,            \* one request to the chat function /api/chat
  chat,           \* one request of a view: handleSend or handleReprioritize
  hook,           \* useItems: the list of a view, the store and what is between them
  view            \* ChatView: its input, its flag and the calls of handleSend

loopVars == <<items, pc, response, existingItems, result, trace, lastPersisted, passes>>

vars ==
  <<items, pc, response, existingItems, result, trace, lastPersisted, passes,
    fn, api, chat, hook, view>>

\* No request to the chat function.
NoApi ==
  [pc |-> "none", method |-> "", message |-> FALSE, apiKey |-> FALSE,
   attempt |-> 0, statuses |-> <<>>, waits |-> <<>>,
   data |-> "", error |-> "", status |-> 0, body |-> ""]

\* No completion text.
NoText == Resp(NoJson, <<>>)

\* Nothing returned by analyzeWithAI.
NoReturned ==
  [response |-> NoText, items |-> <<>>, updates |-> <<>>, threw |-> FALSE]

\* useItems without a user: no row, no subscription.
NoHook ==
  [local |-> <<>>, store |-> {}, pendingOps |-> {}, channel |-> <<>>,
   timers |-> {}, syncing |-> FALSE, ops |-> <<>>, nextId |-> 1, remote |-> 0]

\* ChatView before its first input.
NoView ==
  [input |-> FALSE, isProcessing |-> FALSE, calls |-> <<>>, version |-> 0]

\* No request of a view.
NoChat ==
  [pc |-> "none", mode |-> "", sends |-> 0, messages |-> <<>>,
   isProcessing |-> FALSE, isReprioritizing |-> FALSE,
   received |-> NoText, returned |-> NoReturned, error |-> ""]

\* No helper is applied on its own.
NoFn == [op |-> "none", kind |-> "none", a |-> <<>>, b |-> <<>>, E |-> <<>>, out |-> 0]

NoResult == [newItems |-> <<>>, updates |-> <<>>, threw |-> FALSE]

Init ==
  /\ items \in InitStores
  /\ pc = "idle"
  /\ response = 0
  /\ existingItems = <<>>
  /\ result = NoResult
  /\ trace = NoTrace
  /\ lastPersisted = 0
  /\ passes = 0
  /\ fn = NoFn
  /\ api = NoApi
  /\ chat = NoChat
  /\ hook = NoHook
  /\ view = NoView

\* analyzeWithAI in classify mode, from the completion text on: the text is
\* parsed against the rows the caller holds.
Analyze(r) ==
  /\ pc = "idle"
  /\ passes < MaxPasses
  /\ response' = r
  /\ existingItems' = items
  /\ result' = parseResponse(Responses[r], items)
  /\ trace' = ParseTrace(Responses[r], items)
  /\ pc' = "parsed"
  /\ passes' = passes + 1
  /\ UNCHANGED <<items, lastPersisted, fn, api, chat, hook, view>>

\* The result is written back: the new items are inserted, then the updates
\* are applied; a failed insert throws, and the updates are not sent.
Persist ==
  /\ pc = "parsed"
  /\ items' = IF InsertAccepted(result.newItems)
                THEN updateItems(addItems(items, result.newItems), result.updates, 1)
                ELSE items
  /\ lastPersisted' = IF AllPersisted(result) THEN response ELSE 0
  /\ pc' = "idle"
  /\ UNCHANGED <<response, existingItems, result, trace, passes, fn, api, chat,
               hook, view>>

Next ==
  \/ \E r \in 1..Len(Responses) : Analyze(r)
  \/ Persist

Spec == Init /\ [][Next]_vars

(***************************************************************************)
(* The helpers on their own: levenshtein, similarity and findMatchingItem  *)
(* applied to inputs drawn from bounded sets.                              *)
(***************************************************************************)

\* The longest string, and the longest list of existing items, drawn.
MaxLen == 3
MaxItems == 2

Alphabet == {"a", "B", "!"}

\* The strings over the alphabet up to a length.
StringsUpTo(n) == UNION {[1..k -> Alphabet] : k \in 0..n}

\* Names with a label, inner blanks and punctuation.
LabelledNames ==
  { Chars("Signal: a B"), Chars(" a  B!"), Chars("noise"), Chars("NOISE  signal a") }

Names == StringsUpTo(MaxLen) \cup LabelledNames

\* The names of the lookups: equal keys, a pair at exactly the threshold
\* (abcd, abce: 3/4), a pair above it (abcd, abcde: 4/5), and a name of two
\* label words.
LookupNames ==
  { Chars("abcd"), Chars("ABCD!"), Chars("abce"), Chars("abcde"),
    Chars("Review"), Chars("Signal noise review") }

\* The names as a completion writes them: with a label, a repeated label,
\* emphasis asterisks around the name or before the label, and none of these.
DisplayNames ==
  { Chars("Pay rent"), Chars("Signal: Pay rent"), Chars("SIGNAL: SIGNAL: Pay rent"),
    Chars("**NOISE: Pay rent**"), Chars("** Necessary: Pay rent"),
    Chars(" noise  Pay **rent** "), Chars("noise") }

ItemsOf(names) ==
  [k \in 1..Len(names) |-> Item(k, names[k], "NECESSARY", FALSE)]

ItemLists == {ItemsOf(names) : names \in UNION {[1..k -> LookupNames] : k \in 0..MaxItems}}

\* The rows as loadItems orders them: by created_at, the newest first.  The
\* store numbers its rows in the order of their creation.
NewestFirst(E) == [k \in 1..Len(E) |-> E[Len(E) + 1 - k]]

\* normalizeName of useItems
normalizeName(name) ==
  trim(CollapseSpace(RemovePunctuation(StripLabelPrefix(toLowerCase(name)))))

\* group.sort by created_at, group[0]: the item is the oldest of the items of
\* its normalized name.
IsKeeper(item, E) ==
  \A j \in 1..Len(E) :
    normalizeName(E[j].name) = normalizeName(item.name) => item.id <= E[j].id

\* The rename of a kept item: its name without a leading label, trimmed.
Renamed(item) == [item EXCEPT !.name = trim(StripLabelPrefix(item.name))]

RenamedAll(E) == [k \in 1..Len(E) |-> Renamed(E[k])]

\* cleanupDuplicates without a concurrent change and without a failure of the
\* store: the rows that loadItems gives after the deletes and the renames.
cleanupDuplicates(E) == RenamedAll(SelectSeq(E, LAMBDA item : IsKeeper(item, E)))

FnInput(kind, a, b, E) ==
  [op |-> "input", kind |-> kind, a |-> a, b |-> b, E |-> E, out |-> 0]

FnInputs ==
  {FnInput("strings", a, b, <<>>) : a \in StringsUpTo(MaxLen), b \in StringsUpTo(MaxLen)}
  \cup {FnInput("names", a, b, <<>>) : a \in Names, b \in Names}
  \cup {FnInput("lookup", a, <<>>, E) : a \in LookupNames, E \in ItemLists}
  \cup {FnInput("display", a, <<>>, <<>>) : a \in DisplayNames}
  \cup {FnInput("rows", <<>>, <<>>, NewestFirst(E)) : E \in ItemLists}

\* The analysis loop at rest.
LoopIdle ==
  /\ items = <<>>
  /\ pc = "idle"
  /\ response = 0
  /\ existingItems = <<>>
  /\ result = NoResult
  /\ trace = NoTrace
  /\ lastPersisted = 0
  /\ passes = 0

FnInit ==
  /\ LoopIdle
  /\ fn \in FnInputs
  /\ api = NoApi
  /\ chat = NoChat
  /\ hook = NoHook
  /\ view = NoView

ApplyLevenshtein ==
  /\ fn.op = "input" /\ fn.kind = "strings"
  /\ fn' = [fn EXCEPT !.op = "levenshtein", !.out = levenshtein(fn.a, fn.b)]
  /\ UNCHANGED <<loopVars, api, chat, hook, view>>

ApplySimilarity ==
  /\ fn.op = "input" /\ fn.kind = "names"
  /\ fn' = [fn EXCEPT !.op = "similarity", !.out = similarity(fn.a, fn.b)]
  /\ UNCHANGED <<loopVars, api, chat, hook, view>>

ApplyFindMatchingItem ==
  /\ fn.op = "input" /\ fn.kind = "lookup"
  /\ fn' = [fn EXCEPT !.op = "findMatchingItem", !.out = findMatchingItem(fn.a, fn.E)]
  /\ UNCHANGED <<loopVars, api, chat, hook, view>>

ApplyCleanName ==
  /\ fn.op = "input" /\ fn.kind = "display"
  /\ fn' = [fn EXCEPT !.op = "cleanName", !.out = cleanName(fn.a)]
  /\ UNCHANGED <<loopVars, api, chat, hook, view>>

ApplyCleanupDuplicates ==
  /\ fn.op = "input" /\ fn.kind = "rows"
  /\ fn' = [fn EXCEPT !.op = "cleanupDuplicates", !.out = cleanupDuplicates(fn.E)]
  /\ UNCHANGED <<loopVars, api, chat, hook, view>>

FnNext ==
  \/ ApplyLevenshtein
  \/ ApplySimilarity
  \/ ApplyFindMatchingItem
  \/ ApplyCleanName
  \/ ApplyCleanupDuplicates

FnSpec == FnInit /\ [][FnNext]_vars

(***************************************************************************)
(* The chat function /api/chat: handler and callAnthropic                  *)
(*                                                                         *)
(* One request, in the steps between its awaits: the handler up to the     *)
(* call, each upstream fetch, each sleep before a retry, and the response  *)
(* the handler sends.                                                      *)
(***************************************************************************)

MAX_RETRIES == 2
RETRY_DELAY == 1000

Methods == {"OPTIONS", "GET", "POST"}

\* What one upstream fetch gives: a response with a status, with a completion
\* text ("text"), without one ("empty") or with a body that is no JSON
\* ("nojson"); or no response at all (status 0: fetch rejects).
Upstream(status, body) == [status |-> status, body |-> body]

UpstreamOutcomes ==
  {Upstream(200, b) : b \in {"text", "empty", "nojson"}}
  \cup {Upstream(c, "error") : c \in {400, 401, 429, 500, 503, 529}}
  \cup {Upstream(0, "")}

IsOk(status) == 200 <= status /\ status <= 299

ApiStart(method, message, apiKey) ==
  [NoApi EXCEPT !.pc = "handler", !.method = method, !.message = message,
                !.apiKey = apiKey]

ApiInit ==
  /\ LoopIdle
  /\ fn = NoFn
  /\ chat = NoChat
  /\ hook = NoHook
  /\ view = NoView
  /\ api \in {ApiStart(m, msg, key) : m \in Methods, msg \in BOOLEAN, key \in BOOLEAN}

Respond(a, status, body) ==
  [a EXCEPT !.pc = "done", !.status = status, !.body = body]

\* handler, up to the call of callAnthropic.
Handler ==
  /\ api.pc = "handler"
  /\ api' = IF api.method = "OPTIONS" THEN Respond(api, 200, "")
            ELSE IF api.method # "POST" THEN Respond(api, 405, "Method not allowed")
            ELSE IF ~api.message THEN Respond(api, 400, "Message is required")
            ELSE IF ~api.apiKey THEN Respond(api, 500, "AI service not configured")
            ELSE [api EXCEPT !.pc = "fetch", !.attempt = 1]
  /\ UNCHANGED <<loopVars, fn, chat, hook, view>>

\* callAnthropic retrying once more than MAX_RETRIES allows.
CallAnthropic_OneMoreRetry(a, o) ==
  IF o.status = 0
    THEN [a EXCEPT !.pc = "caught", !.error = "fetch failed"]
  ELSE IF ~IsOk(o.status)
    THEN IF o.status >= 500 /\ a.attempt <= MAX_RETRIES + 1
           THEN [a EXCEPT !.pc = "sleep"]
           ELSE [a EXCEPT !.pc = "caught", !.error = "API error"]
  ELSE IF o.body = "nojson"
    THEN [a EXCEPT !.pc = "caught", !.error = "invalid json"]
  ELSE [a EXCEPT !.pc = "returned", !.data = o.body]

\* callAnthropic retrying whatever the status of the failure.
CallAnthropic_RetriesEveryFailure(a, o) ==
  IF o.status = 0
    THEN [a EXCEPT !.pc = "caught", !.error = "fetch failed"]
  ELSE IF ~IsOk(o.status)
    THEN IF a.attempt <= MAX_RETRIES
           THEN [a EXCEPT !.pc = "sleep"]
           ELSE [a EXCEPT !.pc = "caught", !.error = "API error"]
  ELSE IF o.body = "nojson"
    THEN [a EXCEPT !.pc = "caught", !.error = "invalid json"]
  ELSE [a EXCEPT !.pc = "returned", !.data = o.body]

\* callAnthropic, from the answer to its fetch on.
CallAnthropic(a, o) ==
  IF o.status = 0
    THEN [a EXCEPT !.pc = "caught", !.error = "fetch failed"]
  ELSE IF ~IsOk(o.status)
    THEN IF o.status >= 500 /\ a.attempt <= MAX_RETRIES
           THEN [a EXCEPT !.pc = "sleep"]
           ELSE [a EXCEPT !.pc = "caught", !.error = "API error"]
  ELSE IF o.body = "nojson"
    THEN [a EXCEPT !.pc = "caught", !.error = "invalid json"]
  ELSE [a EXCEPT !.pc = "returned", !.data = o.body]

Fetch(o) ==
  /\ api.pc = "fetch"
  /\ api' = CallAnthropic([api EXCEPT !.statuses = Append(@, o.status)], o)
  /\ UNCHANGED <<loopVars, fn, chat, hook, view>>

\* await sleep(RETRY_DELAY * attempt), then the call with attempt + 1.
Sleep ==
  /\ api.pc = "sleep"
  /\ api' = [api EXCEPT !.pc = "fetch",
                        !.waits = Append(@, RETRY_DELAY * api.attempt),
                        !.attempt = @ + 1]
  /\ UNCHANGED <<loopVars, fn, chat, hook, view>>

\* handler, behind the call: the completion text is sent, or an error.
Reply ==
  /\ api.pc \in {"returned", "caught"}
  /\ api' = IF api.pc = "caught" THEN Respond(api, 500, api.error)
            ELSE IF api.data # "text" THEN Respond(api, 500, "Empty response from AI")
            ELSE Respond(api, 200, "response")
  /\ UNCHANGED <<loopVars, fn, chat, hook, view>>

ApiNext ==
  \/ Handler
  \/ \E o \in UpstreamOutcomes : Fetch(o)
  \/ Sleep
  \/ Reply

\* Every awaited promise settles: the upstream answers or the fetch fails, and
\* the timer of sleep fires.
ApiSpec == ApiInit /\ [][ApiNext]_vars /\ WF_vars(ApiNext)

(***************************************************************************)
(* The views: ChatView.handleSend and ListView.handleReprioritize          *)
(*                                                                         *)
(* One request at a time, in the steps between its awaits.                 *)
(***************************************************************************)

\* The requests of one run.
MaxRequests == 2

\* What /api/chat sends as data.response.
ChatResponses ==
  { Responses[1], Responses[2], Responses[4],
    Resp(NoJson, Chars("^# SIGNAL: Ship release\n^% NECESSARY: Pay rent | NEXT: Today")),
    Resp(NoJson, Chars("All clear today")), NoText }

\* What analyzeWithAI returns: the text, and the lists of parseResponse;
\* threw: it returns nothing, an exception of parseResponse is thrown on.
Returned(received, parsed) ==
  [response |-> received, items |-> parsed.newItems, updates |-> parsed.updates,
   threw |-> parsed.threw]

\* analyzeWithAI with every response parsed, whatever the mode.
analyzeWithAI_AlwaysParses(received, E, isReprioritize) ==
  Returned(received, parseResponse(received, E))

\* analyzeWithAI returning the text without its JSON block.
analyzeWithAI_TextWithoutBlock(received, E, isReprioritize) ==
  Returned([received EXCEPT !.json = NoJson],
           IF isReprioritize THEN NoResult ELSE parseResponse(received, E))

\* analyzeWithAI, from data.response on.
analyzeWithAI(received, E, isReprioritize) ==
  Returned(received, IF isReprioritize THEN NoResult ELSE parseResponse(received, E))

\* A message of the transcript: its role, what it is, and the request it
\* belongs to.
Msg(role, kind, n) == [role |-> role, kind |-> kind, n |-> n]

ChatInit ==
  /\ items \in InitStores
  /\ pc = "idle"
  /\ response = 0
  /\ existingItems = <<>>
  /\ result = NoResult
  /\ trace = NoTrace
  /\ lastPersisted = 0
  /\ passes = 0
  /\ fn = NoFn
  /\ api = NoApi
  /\ chat = [NoChat EXCEPT !.pc = "idle"]
  /\ hook = NoHook
  /\ view = NoView

ChatUnchanged == UNCHANGED <<pc, response, lastPersisted, passes, fn, api, hook, view>>

\* handleSend up to its first await: the input is taken and the user's
\* message is added to the transcript.  The rows the request works with are
\* those of the render it was started from.
HandleSend ==
  /\ chat.pc = "idle"
  /\ chat.sends < MaxRequests
  /\ ~chat.isProcessing
  /\ chat' = [chat EXCEPT !.pc = "sent", !.mode = "classify", !.sends = @ + 1,
                          !.error = "", !.received = NoText, !.returned = NoReturned,
                          !.messages = Append(@, Msg("user", "input", chat.sends + 1))]
  /\ existingItems' = items
  /\ UNCHANGED <<items, result, trace>>
  /\ ChatUnchanged

\* handleReprioritize up to its first await.
HandleReprioritize ==
  /\ chat.pc = "idle"
  /\ chat.sends < MaxRequests
  /\ ~chat.isReprioritizing
  /\ chat' = [chat EXCEPT !.pc = "sent", !.mode = "reprioritize", !.sends = @ + 1,
                          !.isReprioritizing = TRUE,
                          !.received = NoText, !.returned = NoReturned,
                          !.messages = Append(@, Msg("user", "input", chat.sends + 1))]
  /\ existingItems' = items
  /\ UNCHANGED <<items, result, trace>>
  /\ ChatUnchanged

\* The call of analyzeWithAI; handleSend sets its flag only here.
Call ==
  /\ chat.pc = "sent"
  /\ chat' = [chat EXCEPT !.pc = "analyzing",
                          !.isProcessing = IF chat.mode = "classify" THEN TRUE ELSE @]
  /\ UNCHANGED <<items, existingItems, result, trace>>
  /\ ChatUnchanged

\* analyzeWithAI fails: fetch rejects, or the answer of /api/chat is not ok.
Fail ==
  /\ chat.pc = "analyzing"
  /\ chat' = [chat EXCEPT !.pc = "caught"]
  /\ UNCHANGED <<items, existingItems, result, trace>>
  /\ ChatUnchanged

\* The call of analyzeWithAI settles: it returns, or throws what
\* parseResponse threw.
Settle(received) ==
  /\ chat.pc = "analyzing"
  /\ chat' = [chat EXCEPT !.pc = "returned", !.received = received,
                          !.returned = analyzeWithAI(received, existingItems,
                                                     chat.mode = "reprioritize")]
  /\ trace' = IF chat.mode = "reprioritize" THEN NoTrace
              ELSE ParseTrace(received, existingItems)
  /\ UNCHANGED <<items, existingItems, result>>
  /\ ChatUnchanged

\* await addMessage('assistant', result.response), or the way into the
\* catch block.
Show ==
  /\ chat.pc = "returned"
  /\ chat' = IF chat.returned.threw THEN [chat EXCEPT !.pc = "caught"]
             ELSE [chat EXCEPT !.pc = "write",
                               !.messages = Append(@, Msg("assistant", "response", chat.sends))]
  /\ UNCHANGED <<items, existingItems, result, trace>>
  /\ ChatUnchanged

\* The updates a view sends to the store: handleSend calls addItems only,
\* handleReprioritize addItems and then updateItems.
UpdatesSent(c) == IF c.mode = "reprioritize" THEN c.returned.updates ELSE <<>>

\* Does the insert of the view succeed?  ok: the request reaches the store.
\* A failed insert throws.
InsertDone(c, ok) == c.returned.items = <<>> \/ (ok /\ InsertAccepted(c.returned.items))

\* The writes of the view.
Write(ok) ==
  /\ chat.pc = "write"
  /\ items' = IF InsertDone(chat, ok)
                THEN updateItems(addItems(items, chat.returned.items), UpdatesSent(chat), 1)
                ELSE items
  /\ chat' = [chat EXCEPT !.pc = IF InsertDone(chat, ok) THEN "finally" ELSE "caught"]
  /\ UNCHANGED <<existingItems, result, trace>>
  /\ ChatUnchanged

\* A catch block that only logs.
CatchBlock_LogsOnly(c) == [c EXCEPT !.pc = "finally"]

\* The catch block: handleSend sets the error and adds the apology to the
\* transcript; handleReprioritize only logs.
CatchBlock(c) ==
  IF c.mode = "classify"
    THEN [c EXCEPT !.pc = "finally", !.error = "Failed to get response",
                   !.messages = Append(@, Msg("assistant", "apology", c.sends))]
    ELSE [c EXCEPT !.pc = "finally"]

Caught ==
  /\ chat.pc = "caught"
  /\ chat' = CatchBlock(chat)
  /\ UNCHANGED <<items, existingItems, result, trace>>
  /\ ChatUnchanged

\* The finally block.
Finally ==
  /\ chat.pc = "finally"
  /\ chat' = [chat EXCEPT !.pc = "idle",
                          !.isProcessing = IF chat.mode = "classify" THEN FALSE ELSE @,
                          !.isReprioritizing = IF chat.mode = "reprioritize" THEN FALSE ELSE @]
  /\ UNCHANGED <<items, existingItems, result, trace>>
  /\ ChatUnchanged

\* The steps behind the first await of a request.
ChatSteps ==
  \/ Call
  \/ Fail
  \/ \E received \in ChatResponses : Settle(received)
  \/ Show
  \/ \E ok \in BOOLEAN : Write(ok)
  \/ Caught
  \/ Finally

ChatNext ==
  \/ HandleSend
  \/ HandleReprioritize
  \/ ChatSteps

\* Every awaited promise settles; when the user sends is left open.
ChatSpec == ChatInit /\ [][ChatNext]_vars /\ WF_vars(ChatSteps)

(***************************************************************************)
(* useItems: the list a view holds, the store, and the real-time channel   *)
(*                                                                         *)
(* A row is its id and one value that stands for its fields.  The ids of   *)
(* the store are positive; the ids of optimistic rows ("temp-...") are     *)
(* negative.  A local operation is taken in the steps between its awaits:  *)
(* its start, the execution of its request at the store, and the arrival   *)
(* of the answer.  The channel delivers the notifications of the store in  *)
(* the order of the changes, at any time after them.                       *)
(***************************************************************************)

\* The local operations of one run, and the changes another device makes.
MaxOps == 1
MaxRemote == 1

Row(id, val) == [id |-> id, val |-> val]

\* `temp-${Date.now()}-${i}`: the calls take different times.
TempId(o, i) == 0 - (10 * o + i)
TempIds(o, n) == {TempId(o, i) : i \in 1..n}
TempRows(o, n) == [i \in 1..n |-> Row(TempId(o, i), "SIGNAL")]

\* String(i.id).startsWith('temp-')
IsTemp(id) == id < 0

\* The rows the store returns for an insert of n rows.
Inserted(first, n) == [i \in 1..n |-> Row(first + i - 1, "SIGNAL")]

\* A notification of the channel: payload.eventType and payload.new, or
\* payload.old for a DELETE.
Event(eventType, row) == [eventType |-> eventType, row |-> row]

InsertEvents(rows) == [i \in 1..Len(rows) |-> Event("INSERT", rows[i])]

RowsOf(list) == {list[k] : k \in 1..Len(list)}

IdsIn(list) == {list[k].id : k \in 1..Len(list)}

StoreIds(h) == {r.id : r \in h.store}

\* A local operation: kind is the function of the hook, pc "request" (the
\* request is on its way), "response" (the store has answered, the answer is
\* on its way) or "done"; prev is previousItems.
NewOp(kind, id, val, n, prev) ==
  [kind |-> kind, pc |-> "request", id |-> id, val |-> val, n |-> n,
   prev |-> prev, data |-> <<>>, error |-> FALSE, threw |-> FALSE]

HookWith(rows) ==
  [NoHook EXCEPT !.local = rows, !.store = RowsOf(rows), !.nextId = Len(rows) + 1]

\* The list as loadItems left it.
HookInit ==
  /\ LoopIdle
  /\ fn = NoFn
  /\ api = NoApi
  /\ chat = NoChat
  /\ view = NoView
  /\ hook \in {HookWith(<<>>), HookWith(<<Row(1, "SIGNAL")>>)}

HookUnchanged == UNCHANGED <<loopVars, fn, api, chat, view>>

IsOp(o, kinds, at) ==
  /\ o \in 1..Len(hook.ops)
  /\ hook.ops[o].kind \in kinds
  /\ hook.ops[o].pc = at

\* addItems up to its await: the optimistic rows are put in front.
AddItemsStart(n) ==
  /\ Len(hook.ops) < MaxOps
  /\ hook' = [hook EXCEPT !.local = TempRows(Len(hook.ops) + 1, n) \o @,
                          !.syncing = TRUE,
                          !.ops = Append(@, NewOp("addItems", 0, "SIGNAL", n, <<>>))]
  /\ HookUnchanged

\* The insert at the store: the rows get their ids and the channel its
\* notifications; or the store refuses.
StoreInsert(o, ok) ==
  /\ IsOp(o, {"addItems"}, "request")
  /\ hook' = IF ok
               THEN [hook EXCEPT
                       !.store = @ \cup RowsOf(Inserted(hook.nextId, hook.ops[o].n)),
                       !.channel = @ \o InsertEvents(Inserted(hook.nextId, hook.ops[o].n)),
                       !.nextId = @ + hook.ops[o].n,
                       !.ops[o].data = Inserted(hook.nextId, hook.ops[o].n),
                       !.ops[o].pc = "response"]
               ELSE [hook EXCEPT !.ops[o].error = TRUE, !.ops[o].pc = "response"]
  /\ HookUnchanged

\* The rollback of addItems taking the optimistic rows to be still in front.
RolledBack_DropsFront(local, tempIds) ==
  SubSeq(local, Cardinality(tempIds) + 1, Len(local))

\* setItems(prev => prev.filter(i => !tempIds.includes(i.id)))
RolledBack(local, tempIds) == SelectSeq(local, LAMBDA r : r.id \notin tempIds)

\* setItems(prev => [...data, ...prev.filter(i => !String(i.id).startsWith('temp-'))])
Replaced(local, data) == data \o SelectSeq(local, LAMBDA r : ~IsTemp(r.id))

\* setTimeout(() => ..., 2000) of the operation o, for the ids it marked.
TimersOf(ids, o) == {[ids |-> ids, op |-> o]}

\* addItems behind its await.
AddItemsSettles(o) ==
  /\ IsOp(o, {"addItems"}, "response")
  /\ hook' = IF hook.ops[o].error
               THEN [hook EXCEPT
                       !.local = RolledBack(@, TempIds(o, hook.ops[o].n)),
                       !.syncing = FALSE,
                       !.ops[o].threw = TRUE,
                       !.ops[o].pc = "done"]
               ELSE [hook EXCEPT
                       !.pendingOps = @ \cup IdsIn(hook.ops[o].data),
                       !.timers = @ \cup TimersOf(IdsIn(hook.ops[o].data), o),
                       !.local = Replaced(@, hook.ops[o].data),
                       !.syncing = FALSE,
                       !.ops[o].pc = "done"]
  /\ HookUnchanged

\* prev.map(item => item.id === id ? { ...item, ...update } : item)
Changed(local, id, val) ==
  [k \in 1..Len(local) |-> IF local[k].id = id THEN Row(id, val) ELSE local[k]]

\* updateItems([{ id, ...changes }]) and updateItem(id, updates) up to their
\* await.
UpdateStart(kind, id, val) ==
  /\ Len(hook.ops) < MaxOps
  /\ id \in IdsIn(hook.local) /\ ~IsTemp(id)
  /\ hook' = [hook EXCEPT !.local = Changed(@, id, val),
                          !.syncing = TRUE,
                          !.pendingOps = @ \cup {id},
                          !.ops = Append(@, NewOp(kind, id, val, 0, hook.local))]
  /\ HookUnchanged

\* The update at the store.
StoreUpdate(o, ok) ==
  /\ IsOp(o, {"updateItems", "updateItem"}, "request")
  /\ hook' = IF ~ok
               THEN [hook EXCEPT !.ops[o].error = TRUE, !.ops[o].pc = "response"]
             ELSE IF hook.ops[o].id \in StoreIds(hook)
               THEN [hook EXCEPT
                       !.store = {IF r.id = hook.ops[o].id
                                    THEN Row(r.id, hook.ops[o].val) ELSE r : r \in @},
                       !.channel = Append(@, Event("UPDATE",
                                                   Row(hook.ops[o].id, hook.ops[o].val))),
                       !.ops[o].pc = "response"]
             ELSE [hook EXCEPT !.ops[o].pc = "response"]
  /\ HookUnchanged

\* updateItems behind its await: a refused update is logged.
UpdateItemsSettles(o) ==
  /\ IsOp(o, {"updateItems"}, "response")
  /\ hook' = [hook EXCEPT !.timers = @ \cup TimersOf({hook.ops[o].id}, o),
                          !.syncing = FALSE,
                          !.ops[o].pc = "done"]
  /\ HookUnchanged

\* deleteItem(id) up to its await.
DeleteItemStart(id) ==
  /\ Len(hook.ops) < MaxOps
  /\ id \in IdsIn(hook.local) /\ ~IsTemp(id)
  /\ hook' = [hook EXCEPT !.local = SelectSeq(@, LAMBDA r : r.id # id),
                          !.syncing = TRUE,
                          !.pendingOps = @ \cup {id},
                          !.ops = Append(@, NewOp("deleteItem", id, "", 0, hook.local))]
  /\ HookUnchanged

\* The delete at the store.
StoreDelete(o, ok) ==
  /\ IsOp(o, {"deleteItem"}, "request")
  /\ hook' = IF ~ok
               THEN [hook EXCEPT !.ops[o].error = TRUE, !.ops[o].pc = "response"]
             ELSE IF hook.ops[o].id \in StoreIds(hook)
               THEN [hook EXCEPT
                       !.store = {r \in @ : r.id # hook.ops[o].id},
                       !.channel = Append(@, Event("DELETE", Row(hook.ops[o].id, ""))),
                       !.ops[o].pc = "response"]
             ELSE [hook EXCEPT !.ops[o].pc = "response"]
  /\ HookUnchanged

\* updateItem and deleteItem behind their await: on an error the list is set
\* to previousItems and the error is thrown.
RestoreSettles(o) ==
  /\ IsOp(o, {"updateItem", "deleteItem"}, "response")
  /\ hook' = [hook EXCEPT !.timers = @ \cup TimersOf({hook.ops[o].id}, o),
                          !.local = IF hook.ops[o].error THEN hook.ops[o].prev ELSE @,
                          !.syncing = FALSE,
                          !.ops[o].threw = hook.ops[o].error,
                          !.ops[o].pc = "done"]
  /\ HookUnchanged

\* The change a notification makes to the list.
Applied(local, e) ==
  IF e.eventType = "INSERT"
    THEN IF e.row.id \in IdsIn(local) THEN local ELSE <<e.row>> \o local
  ELSE IF e.eventType = "UPDATE"
    THEN Changed(local, e.row.id, e.row.val)
  ELSE SelectSeq(local, LAMBDA r : r.id # e.row.id)

\* The real-time handler takes the next notification; it skips the ids of
\* pendingOps.
Deliver ==
  /\ hook.channel # <<>>
  /\ hook' = [hook EXCEPT !.channel = Tail(@),
                          !.local = IF Head(hook.channel).row.id \in hook.pendingOps
                                      THEN @ ELSE Applied(@, Head(hook.channel))]
  /\ HookUnchanged

\* The two seconds of a timer are over: its ids leave pendingOps.
TimerFires(t) ==
  /\ t \in hook.timers
  /\ hook' = [hook EXCEPT !.timers = @ \ {t}, !.pendingOps = @ \ t.ids]
  /\ HookUnchanged

\* Another device inserts a row, or changes or deletes the row id.
RemoteChange(eventType, id) ==
  /\ hook.remote < MaxRemote
  /\ eventType = "INSERT" \/ id \in StoreIds(hook)
  /\ hook' = IF eventType = "INSERT"
               THEN [hook EXCEPT
                       !.store = @ \cup {Row(hook.nextId, "NECESSARY")},
                       !.channel = Append(@, Event("INSERT", Row(hook.nextId, "NECESSARY"))),
                       !.nextId = @ + 1,
                       !.remote = @ + 1]
             ELSE IF eventType = "UPDATE"
               THEN [hook EXCEPT
                       !.store = {IF r.id = id THEN Row(id, "NECESSARY") ELSE r : r \in @},
                       !.channel = Append(@, Event("UPDATE", Row(id, "NECESSARY"))),
                       !.remote = @ + 1]
             ELSE [hook EXCEPT
                       !.store = {r \in @ : r.id # id},
                       !.channel = Append(@, Event("DELETE", Row(id, ""))),
                       !.remote = @ + 1]
  /\ HookUnchanged

OpNumbers == 1..MaxOps

HookNext ==
  \/ \E n \in {1, 2} : AddItemsStart(n)
  \/ \E o \in OpNumbers : \E ok \in BOOLEAN : StoreInsert(o, ok)
  \/ \E o \in OpNumbers : AddItemsSettles(o)
  \/ \E kind \in {"updateItems", "updateItem"} : \E id \in IdsIn(hook.local) :
       UpdateStart(kind, id, "NOISE")
  \/ \E o \in OpNumbers : \E ok \in BOOLEAN : StoreUpdate(o, ok)
  \/ \E o \in OpNumbers : UpdateItemsSettles(o)
  \/ \E id \in IdsIn(hook.local) : DeleteItemStart(id)
  \/ \E o \in OpNumbers : \E ok \in BOOLEAN : StoreDelete(o, ok)
  \/ \E o \in OpNumbers : RestoreSettles(o)
  \/ Deliver
  \/ \E t \in hook.timers : TimerFires(t)
  \/ \E eventType \in {"INSERT", "UPDATE", "DELETE"} : \E id \in StoreIds(hook) \cup {0} :
       RemoteChange(eventType, id)

HookSpec == HookInit /\ [][HookNext]_vars

(***************************************************************************)
(* ChatView: handleSend invoked while an earlier handleSend is under way   *)
(*                                                                         *)
(* Of a call only its position counts here: "addMessage" (awaiting the     *)
(* save of the user's message), "analyzing" (awaiting analyzeWithAI),      *)
(* "saving" (awaiting the save of the answer and addItems), "caught"       *)
(* (awaiting the save of the apology), "done", or "returned" (the guard    *)
(* of line 350 returned).  version counts the changes of items; snapshot   *)
(* is the items of the render the call was made in.                        *)
(***************************************************************************)

\* The invocations of handleSend in one run.
MaxSends == 3

ViewInit ==
  /\ LoopIdle
  /\ fn = NoFn
  /\ api = NoApi
  /\ chat = NoChat
  /\ hook = NoHook
  /\ view = NoView

ViewUnchanged == UNCHANGED <<loopVars, fn, api, chat, hook>>

IsCall(c, at) ==
  /\ c \in 1..Len(view.calls)
  /\ view.calls[c].pc = at

\* The user types text that is not blank; the field is disabled while
\* isProcessing.
ViewType ==
  /\ ~view.input
  /\ ~view.isProcessing
  /\ view' = [view EXCEPT !.input = TRUE]
  /\ ViewUnchanged

\* handleSend up to its first await.
ViewSend ==
  /\ Len(view.calls) < MaxSends
  /\ view' = IF ~view.input \/ view.isProcessing
               THEN [view EXCEPT !.calls = Append(@, [pc |-> "returned",
                                                      snapshot |-> view.version])]
               ELSE [view EXCEPT !.input = FALSE,
                                 !.calls = Append(@, [pc |-> "addMessage",
                                                      snapshot |-> view.version])]
  /\ ViewUnchanged

\* The user's message is saved: setIsProcessing(true), analyzeWithAI is
\* called with the items of the call's render.
ViewAnalyze(c) ==
  /\ IsCall(c, "addMessage")
  /\ view' = [view EXCEPT !.isProcessing = TRUE, !.calls[c].pc = "analyzing"]
  /\ ViewUnchanged

\* analyzeWithAI returns or throws.
ViewAnalysisSettles(c, ok) ==
  /\ IsCall(c, "analyzing")
  /\ view' = [view EXCEPT !.calls[c].pc = IF ok THEN "saving" ELSE "caught"]
  /\ ViewUnchanged

\* The answer is saved, and the new items if there are any; or addItems
\* throws.
ViewSaved(c, added, ok) ==
  /\ IsCall(c, "saving")
  /\ added \/ ok
  /\ view' = IF ok
               THEN [view EXCEPT !.version = IF added THEN @ + 1 ELSE @,
                                 !.isProcessing = FALSE,
                                 !.calls[c].pc = "done"]
               ELSE [view EXCEPT !.calls[c].pc = "caught"]
  /\ ViewUnchanged

\* The apology is saved; finally.
ViewCaught(c) ==
  /\ IsCall(c, "caught")
  /\ view' = [view EXCEPT !.isProcessing = FALSE, !.calls[c].pc = "done"]
  /\ ViewUnchanged

CallNumbers == 1..MaxSends

ViewNext ==
  \/ ViewType
  \/ ViewSend
  \/ \E c \in CallNumbers : ViewAnalyze(c)
  \/ \E c \in CallNumbers : \E ok \in BOOLEAN : ViewAnalysisSettles(c, ok)
  \/ \E c \in CallNumbers : \E added, ok \in BOOLEAN : ViewSaved(c, added, ok)
  \/ \E c \in CallNumbers : ViewCaught(c)

ViewSpec == ViewInit /\ [][ViewNext]_vars

(***************************************************************************)
(* The completion last parsed                                              *)
(***************************************************************************)

CurResp == Responses[response]

AfterJson == trace.afterJson

Candidates == trace.candidates

Key(c) == normalize(c.name)

\* The candidate passed the checks on its name and its key is new in this
\* response: it is accepted, and goes on to reconciliation.
Accepted(c) == c.valid /\ Key(c) \notin c.before.seenNames

\* Some existing item has exactly the candidate's normalized name.
HasSameKey(c) ==
  \E k \in 1..Len(existingItems) : normalize(existingItems[k].name) = Key(c)

(***************************************************************************)
(* Claims                                                                  *)
(***************************************************************************)

\* The match of a candidate, as parseResponse looks it up.
MatchOf(c) == c.match

IsPrefix(s, t) == Len(s) <= Len(t) /\ SubSeq(t, 1, Len(s)) = s

Last(s) == s[Len(s)]

\* C1: an accepted candidate whose normalized name is identical to that of an
\* existing item is matched to an existing item and is never appended to
\* newItems; so no record of newItems has the normalized name of an existing
\* item.
C1_SameNameNeverNew ==
  /\ \A c \in Candidates :
       (Accepted(c) /\ HasSameKey(c)) =>
          /\ MatchOf(c) # NullItem
          /\ c.after.newItems = c.before.newItems
  /\ \A k \in 1..Len(result.newItems) : \A j \in 1..Len(existingItems) :
       normalize(result.newItems[k].name) # normalize(existingItems[j].name)

\* C1 witness: a candidate was accepted whose name differs from the name of an
\* existing item, while their normalized names are identical.
C1_Witness ==
  \E c \in Candidates : \E k \in 1..Len(existingItems) :
    /\ Accepted(c)
    /\ c.name # existingItems[k].name
    /\ normalize(existingItems[k].name) = Key(c)

\* The candidate c added exactly one update record, for the item m and with
\* its own classification, and no new item; the record is part of the result.
AddedOneUpdate(c, m) ==
  /\ Len(c.after.updates) = Len(c.before.updates) + 1
  /\ IsPrefix(c.before.updates, c.after.updates)
  /\ Last(c.after.updates).id = m.id
  /\ Last(c.after.updates).classification = c.classification
  /\ c.after.newItems = c.before.newItems
  /\ IsPrefix(c.after.updates, result.updates)

MatchesOtherClass(c, m) == m # NullItem /\ m.classification # c.classification
MatchesSameClass(c, m) == m # NullItem /\ m.classification = c.classification

\* C2: an accepted candidate that matches an existing item of another
\* classification adds exactly one update record, which carries the id of that
\* item and the classification of the candidate, and adds no new item.
C2_MatchOtherClassUpdates ==
  \A c \in Candidates :
    (Accepted(c) /\ MatchesOtherClass(c, MatchOf(c))) => AddedOneUpdate(c, MatchOf(c))

\* C2 witness: a candidate was accepted that matches, without having the same
\* normalized name, an existing item of another classification.
C2_Witness ==
  \E c \in Candidates :
    /\ Accepted(c)
    /\ MatchesOtherClass(c, MatchOf(c))
    /\ ~HasSameKey(c)
    /\ result.updates # <<>>

\* C3: an accepted candidate that matches an existing item of its own
\* classification is dropped: no new item and no update is added for it.
C3_MatchSameClassDropped ==
  \A c \in Candidates :
    (Accepted(c) /\ MatchesSameClass(c, MatchOf(c))) =>
       /\ c.after.newItems = c.before.newItems
       /\ c.after.updates = c.before.updates

\* C3 witness: a candidate was accepted that matches an existing item of its
\* own classification.
C3_Witness ==
  \E c \in Candidates : Accepted(c) /\ MatchesSameClass(c, MatchOf(c))

\* C4: idempotence.  When a completion is parsed again against the store that
\* took the whole result of its previous parse (the new items inserted, the
\* updates applied in order), the second parse returns no new item and no
\* update.
C4_SecondPassEmpty ==
  (pc = "parsed" /\ lastPersisted = response) =>
     /\ result.newItems = <<>>
     /\ result.updates = <<>>

\* The non-completed items of a store.
Active(store) == {k \in 1..Len(store) : ~store[k].completed}

\* No two non-completed items of the store have the same normalized name.
NoActiveDuplicates(store) ==
  \A j, k \in Active(store) :
    normalize(store[j].name) = normalize(store[k].name) => j = k

\* C5: duplicate prevention.  From a store without two non-completed items of
\* the same normalized name, after any sequence of passes, each parsed against
\* the current store and followed by the insert of its new items and by its
\* updates, no two non-completed items have the same normalized name.
C5_NoActiveDuplicates == NoActiveDuplicates(items)

\* C5 witness: a second pass has been written to a store of several
\* non-completed items; it inserted an item, and one of its accepted
\* candidates had the normalized name of a non-completed item.
C5_Witness ==
  /\ pc = "idle" /\ passes >= 2 /\ lastPersisted = response
  /\ result.newItems # <<>>
  /\ Cardinality(Active(items)) >= 2
  /\ \E c \in Candidates : \E k \in Active(existingItems) :
       Accepted(c) /\ normalize(existingItems[k].name) = Key(c)

\* The structured tier accepted a candidate.
JsonAccepted == \E c \in Candidates : c.tier = "json" /\ Accepted(c)

\* C6: tier ordering.  Whenever the structured tier accepts a candidate,
\* whatever its reconciliation gives, no item and no update comes from the
\* marker lines of the response: the result is what the structured tier left.
C6_JsonAcceptedNoFallback ==
  JsonAccepted =>
     /\ \A c \in Candidates : c.tier = "json"
     /\ result.newItems = AfterJson.newItems
     /\ result.updates = AfterJson.updates

\* The fenced block is invalid JSON or JSON of the wrong shape: no array, null,
\* or an array with an element that is null or whose name is no string.
Malformed(json) ==
  \/ json.kind \in {"invalid", "null", "object"}
  \/ \E k \in 1..Len(json.elems) :
       \/ json.elems[k].kind = "null"
       \/ json.elems[k].kind = "obj" /\ json.elems[k].nameType = "other"

\* C7: parseResponse never throws, and a malformed fenced block is recovered
\* locally with the parser going on to the fallback tier.
C7_MalformedFallsThrough ==
  response # 0 =>
     /\ ~result.threw
     /\ Malformed(CurResp.json) => FallbackRuns(AfterJson)

\* C8: every record of newItems and of updates has one of the three
\* classifications.
C8_ClassificationsValid ==
  /\ \A k \in 1..Len(result.newItems) :
       result.newItems[k].classification \in Classifications
  /\ \A k \in 1..Len(result.updates) :
       result.updates[k].classification \in Classifications

\* The candidate went on to reconciliation: its key entered seenNames.
Reconciled(c) == c.after.seenNames # c.before.seenNames

\* The order in which parseResponse visits the candidates: the elements of the
\* array, then the matches tag by tag and, within a tag, by position.
VisitedBefore(d, c) ==
  \/ d.tier = "json" /\ c.tier = "regex"
  \/ d.tier = c.tier /\ d.pos < c.pos

\* The order the claim states for the fallback tier: by line, then by tag.
LineBefore(d, c) ==
  \/ d.tier = "json" /\ c.tier = "regex"
  \/ d.tier = "json" /\ c.tier = "json" /\ d.pos < c.pos
  \/ d.tier = "regex" /\ c.tier = "regex" /\ d.index < c.index

NoTwoNewOfOneKey ==
  \A j, k \in 1..Len(result.newItems) :
    normalize(result.newItems[j].name) = normalize(result.newItems[k].name) => j = k

\* C9, as stated: of the valid candidates of one normalized name exactly the
\* first survives, the occurrences of the fallback tier being ordered by line
\* and then by tag; and newItems holds no two records of one normalized name.
C9_FirstByLineSurvives ==
  /\ \A c \in Candidates :
       Reconciled(c) <=>
         /\ c.valid
         /\ ~\E d \in Candidates : d.valid /\ Key(d) = Key(c) /\ LineBefore(d, c)
  /\ NoTwoNewOfOneKey

\* C9, amended: of the valid candidates of one normalized name exactly the
\* first survives, the occurrences of the fallback tier being ordered by tag
\* (SIGNAL, NECESSARY, NOISE) and then by position in the text; and newItems
\* holds no two records of one normalized name.
C9_FirstVisitedSurvives ==
  /\ \A c \in Candidates :
       Reconciled(c) <=>
         /\ c.valid
         /\ ~\E d \in Candidates : d.valid /\ Key(d) = Key(c) /\ VisitedBefore(d, c)
  /\ NoTwoNewOfOneKey

\* C9 witness: two valid marker lines of one normalized name, the later line
\* under the earlier tag; the later line survived, the earlier was dropped.
C9_Witness ==
  \E c, d \in Candidates :
    /\ c.tier = "regex" /\ d.tier = "regex"
    /\ c.valid /\ d.valid /\ Key(c) = Key(d)
    /\ c.pos < d.pos /\ d.index < c.index
    /\ Reconciled(c) /\ ~Reconciled(d)
    /\ c.after.newItems # c.before.newItems

\* C10: in the fallback tier a candidate whose cleaned name holds a guard
\* phrase adds no new item and no update; so no new item of a result of the
\* fallback tier has a guard phrase in its name.
C10_GuardPhraseDropped ==
  /\ \A c \in Candidates :
       (c.tier = "regex" /\ HasGuardPhrase(c.name)) =>
          /\ c.after.newItems = c.before.newItems
          /\ c.after.updates = c.before.updates
  /\ (response # 0 /\ FallbackRuns(AfterJson)) =>
       \A k \in 1..Len(result.newItems) : ~HasGuardPhrase(result.newItems[k].name)

\* C10 witness: the fallback tier met the line "Your top signal right now:
\* Ship release", which nothing but the guard keeps out, and took another line.
C10_Witness ==
  /\ result.newItems # <<>>
  /\ \E c \in Candidates :
       /\ c.tier = "regex"
       /\ c.name = Chars("Your top signal right now: Ship release")
       /\ Key(c) \notin c.before.seenNames
       /\ c.match = NullItem

\* The similarity of a candidate name and an existing item.
Score(name, item) == similarity(name, item.name)

\* out is the first of the items of E whose similarity to name is the greatest,
\* when that is above the threshold, and null when no similarity is above it.
IsBestMatch(name, E, out) ==
  IF \A k \in 1..Len(E) : ~RatioGT(Score(name, E[k]), Threshold)
    THEN out = NullItem
    ELSE \E k \in 1..Len(E) :
           /\ out = E[k]
           /\ RatioGT(Score(name, E[k]), Threshold)
           /\ \A j \in 1..Len(E) : ~RatioGT(Score(name, E[j]), Score(name, E[k]))
           /\ \A j \in 1..(k - 1) : RatioGT(Score(name, E[k]), Score(name, E[j]))

\* C11: findMatchingItem returns the item of the greatest similarity to the
\* candidate name, the first of them in the order of existingItems, when that
\* similarity is strictly above the threshold, and null otherwise.
C11_ReturnsBestMatch ==
  fn.op = "findMatchingItem" => IsBestMatch(fn.a, fn.E, fn.out)

\* The value an update carries for a field: the candidate's when it has one,
\* the matched item's otherwise.
Merged(new, old) == IF new # <<>> THEN new ELSE old

\* C12: the what, why and next_action of every update record are the
\* candidate's values where it has them and the matched item's values where
\* it has none, in both tiers.
C12_UpdateFieldsMerged ==
  \A c \in Candidates :
    (Accepted(c) /\ MatchesOtherClass(c, MatchOf(c))) =>
       /\ Len(c.after.updates) = Len(c.before.updates) + 1
       /\ Last(c.after.updates).what = Merged(c.what, MatchOf(c).what)
       /\ Last(c.after.updates).why = Merged(c.why, MatchOf(c).why)
       /\ Last(c.after.updates).next_action = Merged(c.next, MatchOf(c).next_action)
       /\ IsPrefix(c.after.updates, result.updates)

\* C12 witness: a marker line without WHAT and WHY and with NEXT updated an
\* item that has all three: the update keeps the item's what and why and takes
\* the line's next action.
C12_Witness ==
  \E c \in Candidates :
    /\ c.tier = "regex" /\ Accepted(c) /\ MatchesOtherClass(c, MatchOf(c))
    /\ c.what = <<>> /\ c.why = <<>> /\ c.next # <<>>
    /\ MatchOf(c).what # <<>> /\ MatchOf(c).why # <<>>
    /\ MatchOf(c).next_action # <<>> /\ MatchOf(c).next_action # c.next
    /\ result.updates = c.after.updates

RatioEq(x, y) == x.num * y.den = y.num * x.den

\* C13: similarity(a, a) = 1, similarity(a, b) = similarity(b, a),
\* 0 <= similarity(a, b) <= 1, and the similarity is 1 when both normalized
\* strings are empty.
C13_SimilarityLaws ==
  fn.op = "similarity" =>
     /\ fn.out.den > 0
     /\ 0 <= fn.out.num /\ fn.out.num <= fn.out.den
     /\ RatioEq(fn.out, similarity(fn.b, fn.a))
     /\ fn.a = fn.b => RatioEq(fn.out, Ratio(1, 1))
     /\ (normalize(fn.a) = <<>> /\ normalize(fn.b) = <<>>) =>
          RatioEq(fn.out, Ratio(1, 1))

\* C13 witness: similarity was applied to two strings whose normalized forms
\* differ in length and in content, and returned a value strictly between 0
\* and 1.
C13_Witness ==
  /\ fn.op = "similarity"
  /\ Len(normalize(fn.a)) > Len(normalize(fn.b)) /\ normalize(fn.b) # <<>>
  /\ fn.a # normalize(fn.a)
  /\ 0 < fn.out.num /\ fn.out.num < fn.out.den

Min3(x, y, z) == Min2(x, Min2(y, z))

\* The edit distance by its recursive definition: the least number of
\* insertions, deletions and substitutions of one character that turn a into b.
RECURSIVE EditDistance(_, _)
EditDistance(a, b) ==
  IF a = <<>> THEN Len(b)
  ELSE IF b = <<>> THEN Len(a)
  ELSE Min3(EditDistance(Tail(a), b) + 1,
            EditDistance(a, Tail(b)) + 1,
            EditDistance(Tail(a), Tail(b)) + (IF Head(a) = Head(b) THEN 0 ELSE 1))

\* C14: levenshtein(a, b) is the edit distance of a and b, also when either is
\* empty.
C14_LevenshteinIsEditDistance ==
  fn.op = "levenshtein" => fn.out = EditDistance(fn.a, fn.b)

\* C14 witness: levenshtein was applied to two different strings of the
\* greatest length that share characters, and returned a distance that is
\* neither 0 nor the length.
C14_Witness ==
  /\ fn.op = "levenshtein"
  /\ Len(fn.a) = MaxLen /\ Len(fn.b) = MaxLen
  /\ fn.a[1] # fn.b[1] /\ fn.a[2] = fn.b[1]
  /\ 0 < fn.out /\ fn.out < MaxLen
IsServerError(status) == status >= 500

IsClientError(status) == status # 0 /\ ~IsOk(status) /\ status < 500

AllServerErrors(statuses) ==
  /\ statuses # <<>>
  /\ \A i \in 1..Len(statuses) : IsServerError(statuses[i])

StrictlyIncreasing(w) == \A i \in 1..Len(w) : \A j \in 1..Len(w) : i < j => w[i] < w[j]

RetriesBounded ==
  /\ Len(api.statuses) <= 3
  /\ StrictlyIncreasing(api.waits)
  /\ (api.pc = "done" /\ AllServerErrors(api.statuses)) =>
       /\ Len(api.statuses) = 3
       /\ api.waits = <<1000, 2000>>
       /\ api.status = 500
       /\ api.body = "API error"

\* C15: every request to the chat function ends, whatever the upstream
\* answers; it never makes more than 3 upstream requests, its waits grow
\* strictly, and when every attempt got a status >= 500 it has made exactly
\* 3 requests, waited 1000 ms and then 2000 ms, and the handler has sent the
\* error with status 500.
C15_RetriesBoundedAndEnds == []RetriesBounded /\ <>(api.pc = "done")

C15_Witness ==
  /\ api.pc = "done"
  /\ AllServerErrors(api.statuses)
  /\ Len(api.statuses) = 3
  /\ api.status = 500

\* The last upstream answer was a permanent failure: a status below 500 that
\* is no success, or a success without completion text.
PermanentFailure(a) ==
  /\ a.statuses # <<>>
  /\ \/ IsClientError(Last(a.statuses))
     \/ a.pc \in {"returned", "done"} /\ a.data = "empty"

\* C16: a status below 500 that is no success, and a success without
\* completion text, are each the last upstream request: no sleep and no
\* further fetch follows, the only request when it was the first answer, and
\* the handler sends an error with status 500.
C16_PermanentFailureNotRetried ==
  /\ \A i \in 1..Len(api.statuses) :
       IsClientError(api.statuses[i]) => i = Len(api.statuses)
  /\ PermanentFailure(api) =>
       /\ api.pc \in {"caught", "returned", "done"}
       /\ Len(api.waits) = Len(api.statuses) - 1
       /\ IsClientError(api.statuses[1]) => Len(api.statuses) = 1
       /\ api.pc = "done" =>
            /\ api.status = 500
            /\ api.body = IF api.data = "empty" THEN "Empty response from AI"
                           ELSE "API error"

C16_Witness ==
  /\ api.pc = "done"
  /\ api.statuses = <<429>>
  /\ api.status = 500

\* C17: whenever the completion call has succeeded, analyzeWithAI throws
\* nothing and returns the text it received, unchanged; in classify mode, when
\* neither tier accepted a candidate, the items and the updates it returns are
\* empty.
C17_TextReturnedUnchanged ==
  chat.pc = "returned" =>
    /\ ~chat.returned.threw
    /\ chat.returned.response = chat.received
    /\ (chat.mode = "classify" /\ \A c \in Candidates : ~Accepted(c)) =>
         /\ chat.returned.items = <<>>
         /\ chat.returned.updates = <<>>

C17_Witness ==
  /\ chat.pc = "returned"
  /\ chat.mode = "classify"
  /\ chat.received = Resp(NoJson, Chars("All clear today"))
  /\ Candidates = {}
  /\ chat.returned.response = chat.received
  /\ chat.returned.items = <<>>

\* C18: when handleSend is through its try block without an exception, the
\* store holds the rows the request started from with every new item of the
\* result inserted and every update of the result applied.
C18_BothListsPersisted ==
  (chat.mode = "classify" /\ chat.pc = "finally" /\ chat.error = "") =>
    items = updateItems(addItems(existingItems, chat.returned.items),
                        chat.returned.updates, 1)

\* The transcript has the user's message of request n and, behind it, the
\* apology of request n as its last message.
ApologyAfterInput(n) ==
  /\ chat.messages # <<>>
  /\ Last(chat.messages) = Msg("assistant", "apology", n)
  /\ \E i \in 1..(Len(chat.messages) - 1) : chat.messages[i] = Msg("user", "input", n)

\* C19: whenever handleSend is in its catch block (analyzeWithAI or addItems
\* threw), the request comes to its end with the apology in the transcript
\* behind the user's message and with isProcessing false.
C19_FailureLeavesApology ==
  (chat.mode = "classify" /\ chat.pc = "caught")
    ~> (chat.pc = "idle" /\ ~chat.isProcessing /\ ApologyAfterInput(chat.sends))

\* C19 witness: the response was shown, the insert failed, and the request
\* ended with the apology.
C19_Witness ==
  /\ chat.pc = "idle"
  /\ chat.mode = "classify"
  /\ ~chat.isProcessing
  /\ ApologyAfterInput(chat.sends)
  /\ chat.returned.items # <<>>

\* C20: in a reprioritize request analyzeWithAI returns no item and no update,
\* whatever the text, and the store stays as the request found it.
C20_ReprioritizeChangesNothing ==
  chat.mode = "reprioritize" =>
    /\ chat.returned.items = <<>>
    /\ chat.returned.updates = <<>>
    /\ items = existingItems

\* C20 witness: a reprioritize request has ended whose text holds a JSON block
\* that reclassifies the one row of the store.
C20_Witness ==
  /\ chat.mode = "reprioritize"
  /\ chat.pc = "idle"
  /\ chat.received = Responses[2]
  /\ chat.returned.response = Responses[2]
  /\ Len(items) = 1


\* C26: in the result of one parse no two update records carry the same id.
C26_UpdateIdsDistinct ==
  pc = "parsed" =>
    \A i, j \in 1..Len(result.updates) :
      result.updates[i].id = result.updates[j].id => i = j

\* No non-completed item of E is similar to the name above the threshold.
NoActiveMatch(name, E) ==
  \A k \in 1..Len(E) : ~E[k].completed => ~RatioGT(Score(name, E[k]), Threshold)

\* C29: an accepted candidate that matches a completed item and no
\* non-completed one is appended to newItems, and no update of the result
\* carries the id of a completed item.
C29_CompletedNotMatched ==
  pc = "parsed" =>
    /\ \A c \in Candidates :
         (Accepted(c) /\ MatchOf(c) # NullItem /\ MatchOf(c).completed
            /\ NoActiveMatch(c.name, existingItems)) =>
           Len(c.after.newItems) = Len(c.before.newItems) + 1
    /\ \A i \in 1..Len(result.updates) : \A k \in 1..Len(existingItems) :
         existingItems[k].id = result.updates[i].id => ~existingItems[k].completed


NoNewline(s) == \A k \in 1..Len(s) : s[k] # "\n"

\* The text a marker-line match covers.
Span(c) == SubSeq(chat.received.text, c.index, c.end - 1)

\* C25: every candidate the fallback tier accepts is matched inside one line:
\* the text from its marker glyph to the end of its last field, without the
\* whitespace at its end, holds no line break, and neither do its name and
\* its fields.
C25_FieldsFromMarkerLine ==
  \A c \in Candidates :
    (c.tier = "regex" /\ Accepted(c)) =>
      /\ NoNewline(trim(Span(c)))
      /\ NoNewline(c.what) /\ NoNewline(c.why) /\ NoNewline(c.next)


\* The name begins with a classification label, in any case, followed by a
\* colon or by whitespace.
BeginsWithLabel(s) ==
  \E w \in 1..Len(LabelWords) :
    /\ HasAtCI(s, 1, LabelWords[w])
    /\ Len(s) > Len(LabelWords[w])
    /\ InClass("[:\\s]", s[Len(LabelWords[w]) + 1])

\* C27: what cleanName returns begins with no classification label, and
\* cleanName leaves it as it is.
C27_CleanNameStripsLabels ==
  fn.op = "cleanName" =>
    /\ ~BeginsWithLabel(fn.out)
    /\ cleanName(fn.out) = fn.out


\* The ids of the rows of a list.
IdsOf(E) == {E[k].id : k \in 1..Len(E)}

\* C24: cleanupDuplicates keeps, of the items of one normalized name, exactly
\* the oldest, and in the list it leaves no two items have the same
\* normalized name.
C24_CleanupLeavesNoDuplicates ==
  fn.op = "cleanupDuplicates" =>
    /\ IdsOf(fn.out) = {fn.E[k].id : k \in {j \in 1..Len(fn.E) : IsKeeper(fn.E[j], fn.E)}}
    /\ \A i, j \in 1..Len(fn.out) :
         normalizeName(fn.out[i].name) = normalizeName(fn.out[j].name) => i = j


\* The step in which the local operation o finishes.
Finishes(o, kinds) ==
  /\ IsOp(o, kinds, "response")
  /\ hook'.ops[o].pc = "done"

RowsWith(local, id) == SelectSeq(local, LAMBDA r : r.id = id)

\* C22: when updateItems finishes after the store refused its update, the
\* local rows of that id are the rows the list held before the call.
C22_UpdateItemsRollsBack ==
  [][\A o \in OpNumbers :
       (Finishes(o, {"updateItems"}) /\ hook.ops[o].error) =>
         RowsWith(hook'.local, hook.ops[o].id) = RowsWith(hook.ops[o].prev, hook.ops[o].id)]_vars

\* C23: no two entries of the local list have the same id, while addItems
\* is the only local operation and no other device changes the store.
C23_NoDuplicateIds ==
  ((\A o \in 1..Len(hook.ops) : hook.ops[o].kind = "addItems") /\ hook.remote = 0) =>
    \A i, j \in 1..Len(hook.local) : hook.local[i].id = hook.local[j].id => i = j

\* All local operations have finished, their timers have fired and the
\* channel is empty.
Quiescent ==
  /\ \A o \in 1..Len(hook.ops) : hook.ops[o].pc = "done"
  /\ hook.timers = {}
  /\ hook.channel = <<>>

\* C30: once all is quiet, and the store refused no request and every local
\* operation was updateItem or deleteItem, the local list holds exactly the
\* rows of the store, each once.
C30_ListConvergesToStore ==
  (/\ Quiescent
   /\ \A o \in 1..Len(hook.ops) :
        hook.ops[o].kind \in {"updateItem", "deleteItem"} /\ ~hook.ops[o].error) =>
    /\ RowsOf(hook.local) = hook.store
    /\ Len(hook.local) = Cardinality(hook.store)


\* The calls of handleSend that await analyzeWithAI.
Analyzing == {c \in 1..Len(view.calls) : view.calls[c].pc = "analyzing"}

\* C28: at most one call of handleSend awaits analyzeWithAI at any time.
C28_OneAnalysisInFlight == Cardinality(Analyzing) <= 1

====
